---- MODULE Spec2Model ----
(***************************************************************************)
(* Model of seeavision_prompt_recode_app.py: the heuristic text scorer     *)
(* (analyze_text, virality_rating), the style formatter (_smart_lines,     *)
(* format_prompt_for_style), the recode pipeline (generate_recodes) and    *)
(* the Streamlit page script that keeps the analysis of the current prompt *)
(* and the generated alternatives in st.session_state.                     *)
(*                                                                         *)
(* A Python str is a sequence of characters; a character is a one-element  *)
(* TLA+ string, and a character outside ASCII is written by its code       *)
(* point ("U+1F525").  len(), slicing and indexing are Len, SubSeq and     *)
(* application.                                                            *)
(***************************************************************************)
EXTENDS Integers, Sequences, FiniteSets, TLC

\* ------------------------------------------------------------------------
\* Characters and the str methods the program uses
\* ------------------------------------------------------------------------

LowerLetters ==
    << "a","b","c","d","e","f","g","h","i","j","k","l","m",
       "n","o","p","q","r","s","t","u","v","w","x","y","z" >>

UpperLetters ==
    << "A","B","C","D","E","F","G","H","I","J","K","L","M",
       "N","O","P","Q","R","S","T","U","V","W","X","Y","Z" >>

LowerSet ==
    { "a","b","c","d","e","f","g","h","i","j","k","l","m",
      "n","o","p","q","r","s","t","u","v","w","x","y","z" }

UpperSet ==
    { "A","B","C","D","E","F","G","H","I","J","K","L","M",
      "N","O","P","Q","R","S","T","U","V","W","X","Y","Z" }

Digits == { "0","1","2","3","4","5","6","7","8","9" }

\* CIRCLED LATIN CAPITAL LETTER A and its small form: str.isupper() is True
\* of the capital, str.isalpha() and \w are False of both.
CircledUpper == "U+24B6"

CircledLower == "U+24D0"

\* str.isalpha()
IsAlpha(c) == c \in LowerSet \/ c \in UpperSet

\* str.isupper() of one character
IsUpper(c) == c \in UpperSet \/ c = CircledUpper

\* a cased character (str.title() looks at the case of the previous one)
IsCased(c) == IsAlpha(c) \/ c \in {CircledUpper, CircledLower}

\* \s of the re module, str.strip() and str.split()
IsSpace(c) == c \in {" ", "\n", "\t"}

\* \w of the re module
IsWordChar(c) == IsAlpha(c) \/ c \in Digits \/ c = "_"

\* [\U0001F300-\U0001FAFF]
IsEmoji(c) ==
    c \in {"U+1F31F", "U+1F3F7", "U+1F4D8", "U+1F525", "U+1F5EF",
           "U+1F602", "U+1F914", "U+1F91D"}

\* the lower-case form of each capital letter, and the reverse
ToLower ==
    [c \in UpperSet |-> LowerLetters[CHOOSE i \in DOMAIN UpperLetters : UpperLetters[i] = c]]

ToUpper ==
    [c \in LowerSet |-> UpperLetters[CHOOSE i \in DOMAIN LowerLetters : LowerLetters[i] = c]]

LowerChar(c) ==
    IF c \in UpperSet THEN ToLower[c]
    ELSE IF c = CircledUpper THEN CircledLower
    ELSE c

UpperChar(c) ==
    IF c \in LowerSet THEN ToUpper[c]
    ELSE IF c = CircledLower THEN CircledUpper
    ELSE c

\* the sequence f[1], ..., f[n] of a function on 1..n, as a tuple
AsSeq(f, n) == SubSeq(f, 1, n)

\* the element of a one-element set.  A value that is computed once and read
\* many times (a local variable of the program) is bound as the element of
\* a one-element set, {e(x) : x \in {value}}, and The takes e(x) out.
The(S) == CHOOSE x \in S : TRUE

\* str.lower()
lower(s) ==
    The({AsSeq([i \in 1..Len(x) |-> LowerChar(x[i])], Len(x)) : x \in {s}})

\* str.upper()
upper(s) == AsSeq([i \in 1..Len(s) |-> UpperChar(s[i])], Len(s))

\* str.title(): a cased character is upper-cased when the character before
\* it is not cased, and lower-cased otherwise
title(s) ==
    AsSeq([i \in 1..Len(s) |->
              IF ~IsCased(s[i]) THEN s[i]
              ELSE IF i = 1 \/ ~IsCased(s[i-1]) THEN UpperChar(s[i])
              ELSE LowerChar(s[i])], Len(s))

\* index of the first and of the last character that is not whitespace
FirstNonSpace(s) ==
    CHOOSE i \in 1..Len(s) :
        ~IsSpace(s[i]) /\ \A j \in 1..(i-1) : IsSpace(s[j])

LastNonSpace(s) ==
    CHOOSE i \in 1..Len(s) :
        ~IsSpace(s[i]) /\ \A j \in (i+1)..Len(s) : IsSpace(s[j])

IsBlank(s) == \A i \in 1..Len(s) : IsSpace(s[i])

\* str.strip()
strip(s) ==
    The({IF IsBlank(x) THEN <<>>
         ELSE SubSeq(x, FirstNonSpace(x), LastNonSpace(x)) : x \in {s}})

\* str.rstrip()
rstrip(s) ==
    The({IF IsBlank(x) THEN <<>> ELSE SubSeq(x, 1, LastNonSpace(x)) : x \in {s}})

\* s[:n] for n >= 0
Prefix(s, n) == SubSeq(s, 1, IF n < Len(s) THEN n ELSE Len(s))

\* str.count(c) for a single character
CountChar(s, c) == Cardinality({i \in 1..Len(s) : s[i] = c})

\* the literal w stands at position i of s
MatchAt(s, i, w) ==
    /\ i >= 1
    /\ i + Len(w) - 1 <= Len(s)
    /\ \A j \in 1..Len(w) : s[i + j - 1] = w[j]

\* "w in s" for strings
Contains(s, w) == \E i \in 1..(Len(s) - Len(w) + 1) : MatchAt(s, i, w)

\* \b just before position i of s (i = Len(s)+1: at the end of s)
WordBoundary(s, i) ==
    LET before == i > 1 /\ i - 1 <= Len(s) /\ IsWordChar(s[i-1])
        after  == i >= 1 /\ i <= Len(s) /\ IsWordChar(s[i])
    IN  before # after

\* \b(w1|w2|...)\b matches at position i of s
WordMatchAt(s, i, words) ==
    /\ WordBoundary(s, i)
    /\ \E w \in words : MatchAt(s, i, w) /\ WordBoundary(s, i + Len(w))

\* len(re.findall(r"\b(w1|w2|...)\b", s)).  Every alternative starts and ends
\* with a word character, so a match starts at the start of a maximal run of
\* word characters and two matches never start inside one another: findall
\* finds one match at each position where the pattern matches.
CountWordMatches(s, words) ==
    Cardinality({i \in 1..Len(s) : WordMatchAt(s, i, words)})

\* re.search(r"\b(w1|w2|...)\b", s) is not None
SearchWord(s, words) == \E i \in 1..Len(s) : WordMatchAt(s, i, words)

\* len(re.findall(r"[!?]{2,}", s)): the quantifier is greedy, so each
\* maximal run of two or more of the characters is one match
CountBangRuns(s) ==
    Cardinality({i \in 1..(Len(s) - 1) :
        /\ s[i] \in {"!", "?"}
        /\ s[i+1] \in {"!", "?"}
        /\ (i = 1 \/ s[i-1] \notin {"!", "?"})})

\* number of whitespace-separated words: len(s.split())
CountWords(s) ==
    Cardinality({i \in 1..Len(s) :
        ~IsSpace(s[i]) /\ (i = 1 \/ IsSpace(s[i-1]))})

Max2(a, b) == IF a >= b THEN a ELSE b

Min2(a, b) == IF a <= b THEN a ELSE b

\* ------------------------------------------------------------------------
\* ANALYZER
\* ------------------------------------------------------------------------

\* every alternative of the five TOXIC_PATTERNS (drugs? is drug|drugs); the
\* alternatives of different patterns are different words, so the sum of the
\* five findall counts is the count over their union
TOXIC_PATTERNS ==
    { <<"h","a","t","e">>, <<"s","t","u","p","i","d">>, <<"i","d","i","o","t">>, <<"l","o","s","e","r">>,
      <<"t","r","a","s","h">>, <<"d","u","m","b">>, <<"e","v","i","l">>, <<"f","r","a","u","d">>,
      <<"l","i","a","r">>, <<"s","h","u","t"," ","u","p">>, <<"d","i","s","g","u","s","t","i","n","g">>, <<"k","i","l","l">>,
      <<"s","h","o","o","t">>, <<"s","t","a","b">>, <<"b","e","a","t">>, <<"a","s","s","a","u","l","t">>,
      <<"v","i","o","l","e","n","c","e">>, <<"m","u","r","d","e","r">>, <<"d","r","u","g">>, <<"d","r","u","g","s">>,
      <<"l","e","a","n">>, <<"p","e","r","c">>, <<"o","x","y">>, <<"x","a","n">>,
      <<"c","o","k","e">>, <<"h","e","r","o","i","n">>, <<"m","e","t","h">>, <<"w","h","o","r","e">>,
      <<"s","l","u","t">>, <<"b","i","t","c","h">>, <<"l","a","z","y">>, <<"u","s","e","l","e","s","s">>,
      <<"w","o","r","t","h","l","e","s","s">>, <<"w","e","a","k">> }

\* the alternatives of the two word patterns of DISRUPT_PATTERNS; the third
\* pattern, [!?]{2,}, is CountBangRuns
DISRUPT_WORDS ==
    { <<"v","s">>, <<"v","e","r","s","u","s">>, <<"a","g","a","i","n","s","t">>, <<"b","e","e","f">>,
      <<"w","a","r">>, <<"t","a","k","e","d","o","w","n">>, <<"c","l","a","p","b","a","c","k">>, <<"e","x","p","o","s","e","d">>,
      <<"c","a","n","c","e","l">>, <<"b","o","y","c","o","t","t">>, <<"o","w","e">>, <<"f","a","k","e">>,
      <<"s","t","e","a","l">>, <<"t","h","i","e","f">>, <<"c","h","e","a","t">>, <<"s","c","a","m">> }

\* An optional value (an argument that defaults to None, a session field that
\* holds None until it is set) is a sequence: None is the empty one, and the
\* value v is <<v>>.
None == <<>>

Some(v) == <<v>>

ValueOf(opt) == opt[1]

\* analyze_text with the two min(100, ...) left out
analyze_text_unclamped(text) ==
    The({
        LET tox_hits == CountWordMatches(t, TOXIC_PATTERNS)
            dis_hits == CountWordMatches(t, DISRUPT_WORDS) + CountBangRuns(t)
            exclam   == CountChar(t, "!")
            caps15   == IF letters # 0 THEN (uppers * 15) \div letters ELSE 0
            caps10   == IF letters # 0 THEN (uppers * 10) \div letters ELSE 0
            toxicity   == tox_hits*10 + exclam*2 + caps15
            disruption == dis_hits*10 + caps10
            positivity == Max2(0, 100 - toxicity)
        IN  [toxicity |-> toxicity, disruption |-> disruption,
             positivity |-> positivity, length |-> Len(text)]
        : t \in {lower(text)},
          letters \in {Cardinality({i \in 1..Len(text) : IsAlpha(text[i])})},
          uppers  \in {Cardinality({i \in 1..Len(text) : IsUpper(text[i])})} })

analyze_text(text) ==
    The({
        LET tox_hits == CountWordMatches(t, TOXIC_PATTERNS)
            dis_hits == CountWordMatches(t, DISRUPT_WORDS) + CountBangRuns(t)
            exclam   == CountChar(t, "!")
            \* int() of a non-negative float is its floor, and the floor of
            \* n + caps_ratio*k is n + (uppers*k) \div letters
            caps15   == IF letters # 0 THEN (uppers * 15) \div letters ELSE 0
            caps10   == IF letters # 0 THEN (uppers * 10) \div letters ELSE 0
            toxicity   == Min2(100, tox_hits*10 + exclam*2 + caps15)
            disruption == Min2(100, dis_hits*10 + caps10)
            positivity == Max2(0, 100 - toxicity)
        IN  [toxicity |-> toxicity, disruption |-> disruption,
             positivity |-> positivity, length |-> Len(text)]
        : t \in {lower(text)},
          letters \in {Cardinality({i \in 1..Len(text) : IsAlpha(text[i])})},
          uppers  \in {Cardinality({i \in 1..Len(text) : IsUpper(text[i])})} })

CTA_WORDS ==
    { <<"s","h","a","r","e">>, <<"c","o","m","m","e","n","t">>, <<"d","e","b","a","t","e">>, <<"j","o","i","n">>,
      <<"d","r","o","p">>, <<"v","o","t","e">>, <<"d","u","e","t">>, <<"s","t","i","t","c","h">>,
      <<"t","a","g">>, <<"f","o","l","l","o","w">>, <<"w","a","t","c","h">>, <<"r","e","p","l","y">>,
      <<"d","i","s","c","u","s","s">>, <<"w","e","i","g","h"," ","i","n">>, <<"s","o","u","n","d"," ","o","f","f">> }

HOOK_WORDS ==
    { <<"w","h","y">>, <<"w","h","a","t">>, <<"h","o","w">>, <<"t","r","u","t","h">>,
      <<"m","y","t","h">>, <<"s","e","c","r","e","t">>, <<"r","e","a","l">>, <<"l","e","t","U+2019","s">>,
      <<"i","s"," ","i","t">>, <<"c","a","n"," ","w","e">>, <<"w","o","u","l","d"," ","y","o","u">>, <<"s","h","o","u","l","d"," ","w","e">> }

\* virality_label with > for >=
virality_label_strict(score) ==
    IF score > 80 THEN "U+1F525 High"
    ELSE IF score > 60 THEN "U+2728 Medium"
    ELSE "U+1F9CA Low"

virality_label(score) ==
    IF score >= 80 THEN "U+1F525 High"
    ELSE IF score >= 60 THEN "U+2728 Medium"
    ELSE "U+1F9CA Low"

\* len(re.findall(r"\b[A-Z]{3,}\b", s)): the maximal runs of word characters
\* that are three or more capital letters
CountCapsWords(s) ==
    Cardinality({i \in 1..Len(s) :
        /\ s[i] \in UpperSet
        /\ WordBoundary(s, i)
        /\ \E k \in 3..(Len(s) - i + 1) :
              /\ \A j \in 0..(k-1) : s[i+j] \in UpperSet
              /\ WordBoundary(s, i + k)})

\* the elements of seq that satisfy keep, in order (the chain of
\* "if ...: reasons.append(...)")
AppendIf(cond, seq, x) == IF cond THEN Append(seq, x) ELSE seq

\* RawScore with the CTA term subtracted
RawScore_cta_subtracted(f) ==
    40 + f.hook_hits*4 + (IF f.has_q THEN 8 ELSE 0) - f.cta_hits*5
       + f.len_bonus + f.clarity + f.spice + f.tox_penalty + f.line_bonus
       + f.emoji_bonus + f.caps_bonus - f.caps_penalty

\* hook_hits*4 + (8 if has_q else 0) + cta_hits*5 + ... of virality_rating,
\* before it is clamped
RawScore(f) ==
    40 + f.hook_hits*4 + (IF f.has_q THEN 8 ELSE 0) + f.cta_hits*5
       + f.len_bonus + f.clarity + f.spice + f.tox_penalty + f.line_bonus
       + f.emoji_bonus + f.caps_bonus - f.caps_penalty

\* the local variables of virality_rating, t being text.strip()
FeaturesOf(text, t, tox, dis) ==
    The({
        [has_q       |-> \E i \in 1..Len(t) : t[i] = "?",
         hook_hits   |-> Cardinality({w \in HOOK_WORDS : Contains(tl, w)}),
         cta_hits    |-> Cardinality({w \in CTA_WORDS : Contains(tl, w)}),
         emoji_hits  |-> emoji_hits,
         lines       |-> lines,
         caps_words  |-> caps_words,
         caps_bonus  |-> Min2(3, caps_words) * 3,
         caps_penalty |-> Max2(0, caps_words - 4) * 4,
         len_bonus   |-> IF Len(t) < 40 THEN -10
                         ELSE IF Len(t) <= 240 THEN 12
                         ELSE IF Len(t) <= 500 THEN 6
                         ELSE -8,
         \* avg_words_line = words / lines
         clarity     |-> IF words <= 16 * lines THEN 12
                         ELSE IF words <= 22 * lines THEN 6
                         ELSE -6,
         dis         |-> dis1,
         tox         |-> tox1,
         spice       |-> IF 20 <= dis1 /\ dis1 <= 60 THEN 10
                         ELSE IF 60 < dis1 /\ dis1 <= 80 THEN 4
                         ELSE IF dis1 > 80 THEN -10
                         ELSE 0,
         tox_penalty |-> -Min2(30, tox1 \div 2),
         line_bonus  |-> IF 2 <= lines /\ lines <= 5 THEN 6
                         ELSE IF lines = 1 THEN 0
                         ELSE -4,
         emoji_bonus |-> Min2(10, emoji_hits * 2)]
        : tl         \in {lower(t)},
          emoji_hits \in {Cardinality({i \in 1..Len(t) : IsEmoji(t[i])})},
          lines      \in {Max2(1, CountChar(t, "\n") + 1)},
          caps_words \in {CountCapsWords(t)},
          \* sum(len(l.split()) for l in t.split("\n")): "\n" is whitespace,
          \* so no word lies across two lines and the sum is the number of
          \* words
          words      \in {CountWords(t)},
          dis1       \in {IF dis = None THEN analyze_text(text).disruption
                          ELSE ValueOf(dis)},
          tox1       \in {IF tox = None THEN analyze_text(text).toxicity
                          ELSE ValueOf(tox)} })

ViralityFeatures(text, tox, dis) ==
    The({FeaturesOf(text, t, tox, dis) : t \in {strip(text)}})

\* the rating built from the local variables f
Rating(f) ==
    LET \* every term is an integer: int(round(score)) is score
        score == Max2(0, Min2(100, RawScore(f)))
        r1 == AppendIf(f.has_q, <<>>, "question hook")
        r2 == AppendIf(f.hook_hits # 0, r1, "curiosity keywords")
        r3 == AppendIf(f.cta_hits # 0, r2, "CTA present")
        r4 == AppendIf(2 <= f.lines /\ f.lines <= 5, r3, "multi-line format")
        r5 == AppendIf(f.len_bonus > 0, r4, "strong length")
        r6 == AppendIf(f.emoji_hits # 0, r5, "emoji accent")
        r7 == AppendIf(20 <= f.dis /\ f.dis <= 80, r6, "healthy spice")
        r8 == AppendIf(f.tox > 40, r7, "toxicity penalty")
        r9 == AppendIf(f.dis > 80, r8, "overly divisive penalty")
        r10 == AppendIf(f.caps_penalty # 0, r9, "too many ALL CAPS")
    IN  [score |-> score, label |-> virality_label(score), reasons |-> r10]

\* the local variables are computed once and the rating is built from them
virality_rating(text, tox, dis) ==
    CHOOSE r \in {Rating(f) : f \in {ViralityFeatures(text, tox, dis)}} : TRUE

\* ------------------------------------------------------------------------
\* PRESETS and the style formatter
\* ------------------------------------------------------------------------

STYLE_PRESETS ==
    [ p \in {"Big Bold Banner", "Fire Headline", "Minimal Stack",
             "Debate Ticket", "Sticker Bubble", "Clean Serif", "Neon Dark",
             "Q&A Card", "Impact Poster", "Magazine Deck", "Ribbon Headline",
             "Headline Stack"} |->
        CASE p = "Big Bold Banner" -> [case |-> "upper",    prefix |-> <<>>, bullets |-> FALSE]
          [] p = "Fire Headline"   -> [case |-> "title",    prefix |-> <<"U+1F525"," ">>, bullets |-> FALSE]
          [] p = "Minimal Stack"   -> [case |-> "title",    prefix |-> <<>>, bullets |-> FALSE]
          [] p = "Debate Ticket"   -> [case |-> "title",    prefix |-> <<>>, bullets |-> TRUE]
          [] p = "Sticker Bubble"  -> [case |-> "mixed",    prefix |-> <<"U+1F5EF","U+FE0F"," ">>, bullets |-> FALSE]
          [] p = "Clean Serif"     -> [case |-> "sentence", prefix |-> <<>>, bullets |-> FALSE]
          [] p = "Neon Dark"       -> [case |-> "upper",    prefix |-> <<"U+26A1"," ">>, bullets |-> FALSE]
          [] p = "Q&A Card"        -> [case |-> "title",    prefix |-> <<"U+2753"," ">>, bullets |-> FALSE]
          [] p = "Impact Poster"   -> [case |-> "upper",    prefix |-> <<>>, bullets |-> FALSE]
          [] p = "Magazine Deck"   -> [case |-> "sentence", prefix |-> <<>>, bullets |-> FALSE]
          [] p = "Ribbon Headline" -> [case |-> "title",    prefix |-> <<"U+1F3F7","U+FE0F"," ">>, bullets |-> FALSE]
          [] p = "Headline Stack"  -> [case |-> "title",    prefix |-> <<>>, bullets |-> FALSE] ]

_to_case(text, mode) ==
    IF mode = "upper" THEN upper(text)
    ELSE IF mode = "title" THEN title(text)
    ELSE IF mode = "sentence" THEN
        LET t == strip(text)
        IN  IF t # <<>> THEN <<UpperChar(t[1])>> \o SubSeq(t, 2, Len(t)) ELSE t
    ELSE text

\* the elements of a finite set of integers, in increasing order
SortedSeq(S) ==
    [k \in 1..Cardinality(S) |->
        CHOOSE x \in S : Cardinality({y \in S : y < x}) = k - 1]

\* the positions of s that re.split(r"[.,;:!?]\s+|\s{2,}", s) takes as
\* separators.  A match is a punctuation mark and the whole run of whitespace
\* after it, or a whole run of two or more whitespace characters; a match
\* ends with whitespace and is followed by none, so the scan meets every
\* punctuation mark and every whitespace run at its first character.
SeparatorPositions(s) ==
    LET punct == {".", ",", ";", ":", "!", "?"}
        \* first position of the whitespace run that holds position i
        RunStart(i) ==
            CHOOSE j \in 1..i :
                /\ j = 1 \/ ~IsSpace(s[j-1])
                /\ \A k \in j..i : IsSpace(s[k])
        RunEnd(i) ==
            CHOOSE j \in i..Len(s) :
                /\ j = Len(s) \/ ~IsSpace(s[j+1])
                /\ \A k \in i..j : IsSpace(s[k])
    IN  {i \in 1..Len(s) :
            \/ s[i] \in punct /\ i < Len(s) /\ IsSpace(s[i+1])
            \/ /\ IsSpace(s[i])
               /\ \/ RunStart(i) > 1 /\ s[RunStart(i) - 1] \in punct
                  \/ RunEnd(i) - RunStart(i) + 1 >= 2}

\* the maximal runs of positions of 1..n outside seps, as <<first, last>>
\* pairs in order
Runs(n, seps) ==
    LET starts == {i \in 1..n : i \notin seps /\ (i = 1 \/ (i-1) \in seps)}
        EndOf(i) ==
            CHOOSE j \in i..n :
                /\ j = n \/ (j+1) \in seps
                /\ \A k \in i..j : k \notin seps
        ordered == SortedSeq(starts)
    IN  [k \in 1..Len(ordered) |-> <<ordered[k], EndOf(ordered[k])>>]

\* [p.strip() for p in re.split(r"[.,;:!?]\s+|\s{2,}", s) if p.strip()]: the
\* empty strings re.split returns between two adjacent separators and at the
\* ends are dropped by the filter
SplitParts(s) ==
    LET runs   == Runs(Len(s), SeparatorPositions(s))
        pieces == [k \in 1..Len(runs) |-> strip(SubSeq(s, runs[k][1], runs[k][2]))]
    IN  SelectSeq(pieces, LAMBDA p : p # <<>>)

\* str.split(): the maximal runs of characters that are not whitespace
split(s) ==
    LET runs == Runs(Len(s), {i \in 1..Len(s) : IsSpace(s[i])})
    IN  [k \in 1..Len(runs) |-> SubSeq(s, runs[k][1], runs[k][2])]

RECURSIVE join(_, _)
\* sep.join(strs)
join(sep, strs) ==
    IF strs = <<>> THEN <<>>
    ELSE IF Len(strs) = 1 THEN strs[1]
    ELSE strs[1] \o sep \o join(sep, Tail(strs))

_smart_lines(core, max_lines) ==
    LET parts == SplitParts(strip(core))
        words == split(core)
        step  == Max2(1, Len(words) \div 3)
        \* range(0, len(words), step) has ceil(len(words) / step) elements
        nchunks == (Len(words) + step - 1) \div step
        chunks == [m \in 1..nchunks |->
                     join(<<" ">>, SubSeq(words, (m-1)*step + 1,
                                          Min2(m*step, Len(words))))]
    IN  IF Len(parts) < 3
        THEN IF words = <<>> THEN <<>> ELSE Prefix(chunks, max_lines)
        ELSE Prefix(parts, max_lines)

format_prompt_for_style(text, preset_name) ==
    LET p == STYLE_PRESETS[preset_name]
    IN  IF p.bullets
        THEN LET lines    == _smart_lines(text, 3)
                 headline == IF lines # <<>> THEN _to_case(lines[1], p.case)
                             ELSE _to_case(text, p.case)
                 subs     == IF Len(lines) > 1 THEN SubSeq(lines, 2, Min2(3, Len(lines)))
                             ELSE << <<"S","h","a","r","e"," ","y","o","u","r"," ","v","i","e","w">>,
                                     <<"B","r","i","n","g"," ","o","n","e"," ","s","o","l","u","t","i","o","n">> >>
                 bulleted == [k \in 1..Len(subs) |-> <<"U+2022"," ">> \o subs[k]]
             IN  headline \o <<"\n">> \o join(<<"\n">>, bulleted)
        ELSE LET lines  == _smart_lines(text, 5)
                 cased  == IF lines # <<>>
                           THEN [k \in 1..Len(lines) |-> _to_case(lines[k], p.case)]
                           ELSE <<_to_case(text, p.case)>>
                 first  == IF p.prefix # <<>> THEN p.prefix \o cased[1] ELSE cased[1]
             IN  join(<<"\n">>, <<first>> \o Tail(cased))

\* ------------------------------------------------------------------------
\* OPENAI RECODE
\* ------------------------------------------------------------------------

EMOJI_MAP ==
    { << <<"S","e","r","i","o","u","s"," ","&"," ","B","a","l","a","n","c","e","d">>, <<"U+2696","U+FE0F">> >>,
      << <<"C","o","l","l","a","b","o","r","a","t","i","v","e"," ","D","e","b","a","t","e">>, <<"U+1F91D">> >>,
      << <<"C","o","m","e","d","i","c"," ","S","p","i","n">>, <<"U+1F602">> >>,
      << <<"U","p","l","i","f","t","i","n","g"," ","A","l","t","e","r","n","a","t","i","v","e">>, <<"U+1F31F">> >>,
      << <<"E","d","u","c","a","t","i","o","n","a","l"," ","I","n","s","i","g","h","t">>, <<"U+1F4D8">> >>,
      << <<"T","h","o","u","g","h","t","-","P","r","o","v","o","k","i","n","g">>, <<"U+1F914">> >> }

InEmojiMap(style) == \E e \in EMOJI_MAP : e[1] = style

\* EMOJI_MAP.get(style, default)
EmojiMapGet(style, default) ==
    IF InEmojiMap(style) THEN (CHOOSE e \in EMOJI_MAP : e[1] = style)[2]
    ELSE default

Sparkles == <<"U+2728">>

SHORTEN_CUES ==
    { <<"s","h","o","r","t">>, <<"s","h","o","r","t","e","n">>,
      <<"c","o","n","d","e","n","s","e">> }

EXPAND_CUES ==
    { <<"l","o","n","g">>, <<"e","x","p","a","n","d">>,
      <<"d","e","t","a","i","l","e","d">>, <<"t","h","r","e","a","d">> }

\* target_len of generate_recodes.  int(input_len*0.6) and int(input_len*1.5)
\* are the floors of 6*input_len/10 and of 15*input_len/10: the double
\* product is exact or rounds to the integer when the exact product is one.
\* target_len with the expand cues tested first
target_len_expand_first(original) ==
    LET input_len == Len(original)
    IN  The({IF SearchWord(low, EXPAND_CUES) THEN (input_len * 15) \div 10
             ELSE IF SearchWord(low, SHORTEN_CUES) THEN Max2(200, (input_len * 6) \div 10)
             ELSE input_len
             : low \in {lower(original)}})

\* target_len without the floor of 200
target_len_no_floor(original) ==
    LET input_len == Len(original)
    IN  The({IF SearchWord(low, SHORTEN_CUES) THEN (input_len * 6) \div 10
             ELSE IF SearchWord(low, EXPAND_CUES) THEN (input_len * 15) \div 10
             ELSE input_len
             : low \in {lower(original)}})

target_len(original) ==
    LET input_len == Len(original)
    IN  The({IF SearchWord(low, SHORTEN_CUES) THEN Max2(200, (input_len * 6) \div 10)
             ELSE IF SearchWord(low, EXPAND_CUES) THEN (input_len * 15) \div 10
             ELSE input_len
             : low \in {lower(original)}})

\* hard_max of generate_recodes
hard_max(original) ==
    The({IF SearchWord(low, EXPAND_CUES)
         THEN (target_len(original) * 15) \div 10 + 40
         ELSE (target_len(original) * 11) \div 10 + 40
         : low \in {lower(original)}})

\* the character U+0060 is the backquote
Fence == <<"U+0060","U+0060","U+0060">>

\* where the group of the fence pattern starts when the opening fence is at
\* position i of s: after an optional "json" (re.I) and all the whitespace
\* that follows it
GroupStart(s, i) ==
    LET a == IF MatchAt(lower(SubSeq(s, i + 3, Min2(i + 6, Len(s)))), 1,
                        <<"j","s","o","n">>)
             THEN i + 7 ELSE i + 3
    IN  IF \E g \in a..Len(s) : ~IsSpace(s[g])
        THEN CHOOSE g \in a..Len(s) :
                ~IsSpace(s[g]) /\ \A h \in a..(g-1) : IsSpace(s[h])
        ELSE Len(s) + 1

\* re.search of the fence pattern (a fence, (?:json)?\s*, a lazy group, a
\* fence) with re.S | re.I.  The opening fence is the leftmost one that has
\* a closing fence at or after the start of the group (giving back some of
\* the whitespace never uncovers a fence), and the lazy group ends at the
\* first such closing fence.
_strip_code_fences(s) ==
    The({
        LET Closing(i) == {j \in fences : j >= GroupStart(s, i)}
            opening == {i \in fences : Closing(i) # {}}
        IN  IF opening = {} THEN strip(s)
            ELSE LET i == CHOOSE x \in opening : \A y \in opening : x <= y
                     j == CHOOSE x \in Closing(i) : \A y \in Closing(i) : x <= y
                 IN  strip(SubSeq(s, GroupStart(s, i), j - 1))
        : fences \in {{i \in 1..Len(s) : MatchAt(s, i, Fence)}} })

\* A JSON value is a record with a type: [type |-> "str", s |-> characters],
\* [type |-> "num", n |-> 0..9], [type |-> "null"], [type |-> "list", items
\* |-> <<values>>], and the object [type |-> "obj", style |-> v, emoji |-> v,
\* text |-> v] whose three keys each hold None (the key is absent) or
\* Some(a str, num or null value).
JStr(s) == [type |-> "str", s |-> s]

JNum(n) == [type |-> "num", n |-> n]

JNull == [type |-> "null"]

JList(items) == [type |-> "list", items |-> items]

JObj(style, emoji, text) ==
    [type |-> "obj", style |-> style, emoji |-> emoji, text |-> text]

DigitChars == <<"0","1","2","3","4","5","6","7","8","9">>

\* str(v) of the Python value of a JSON str, num or null
PyStr(v) ==
    IF v.type = "str" THEN v.s
    ELSE IF v.type = "num" THEN <<DigitChars[v.n + 1]>>
    ELSE <<"N","o","n","e">>

NeedsEscape(c) == c \in {"\"", "\\", "\n"}

RECURSIVE JsonEscape(_)
\* the characters of a str inside a JSON document: the quote, the backslash
\* and the line feed are written as escapes
JsonEscape(s) ==
    IF \A i \in 1..Len(s) : ~NeedsEscape(s[i]) THEN s
    ELSE LET i == CHOOSE k \in 1..Len(s) :
                     NeedsEscape(s[k]) /\ \A h \in 1..(k-1) : ~NeedsEscape(s[h])
         IN  SubSeq(s, 1, i - 1)
             \o <<"\\", IF s[i] = "\n" THEN "n" ELSE s[i]>>
             \o JsonEscape(SubSeq(s, i + 1, Len(s)))

\* the text of a JSON str, num or null
ScalarText(v) ==
    IF v.type = "str" THEN <<"\"">> \o JsonEscape(v.s) \o <<"\"">>
    ELSE IF v.type = "num" THEN <<DigitChars[v.n + 1]>>
    ELSE <<"n","u","l","l">>

\* the text of a JSON object with the keys style, emoji and text
ObjectText(o) ==
    LET fields ==
          (IF o.style = None THEN <<>>
           ELSE << <<"\"","s","t","y","l","e","\"",":"," ">> \o ScalarText(ValueOf(o.style)) >>)
          \o (IF o.emoji = None THEN <<>>
              ELSE << <<"\"","e","m","o","j","i","\"",":"," ">> \o ScalarText(ValueOf(o.emoji)) >>)
          \o (IF o.text = None THEN <<>>
              ELSE << <<"\"","t","e","x","t","\"",":"," ">> \o ScalarText(ValueOf(o.text)) >>)
    IN  <<"{">> \o join(<<",", " ">>, fields) \o <<"}">>

\* the text of a JSON document (what json.dumps writes for it)
JsonText(v) ==
    IF v.type = "obj" THEN ObjectText(v)
    ELSE IF v.type = "list"
    THEN <<"[">>
         \o join(<<",", " ">>,
                 [k \in 1..Len(v.items) |->
                     IF v.items[k].type = "obj" THEN ObjectText(v.items[k])
                     ELSE ScalarText(v.items[k])])
         \o <<"]">>
    ELSE ScalarText(v)

\* json.loads(content): Some(the value) when content is the text of the JSON
\* document the reply carries, None when json.loads raises
json_loads(content, reply) ==
    IF reply.json # None /\ content = JsonText(ValueOf(reply.json))
    THEN reply.json
    ELSE None

\* the body of "for item in data" raises for this item: it has no .get, or
\* the emoji that EMOJI_MAP.get returns has no .strip
ItemRaises(item) ==
    \/ item.type # "obj"
    \/ /\ item.emoji # None
       /\ ValueOf(item.emoji).type # "str"
       /\ ~InEmojiMap(strip(PyStr(IF item.style = None
                                  THEN JStr(<<"R","e","c","o","d","e">>)
                                  ELSE ValueOf(item.style))))

\* the variant the loop body makes of an item that does not raise
ItemVariant(item) ==
    LET style == strip(PyStr(IF item.style = None
                             THEN JStr(<<"R","e","c","o","d","e">>)
                             ELSE ValueOf(item.style)))
        emoji == strip(EmojiMapGet(style,
                        IF item.emoji = None THEN Sparkles
                        ELSE PyStr(ValueOf(item.emoji))))
        text  == strip(PyStr(IF item.text = None THEN JStr(<<>>)
                             ELSE ValueOf(item.text)))
    IN  [style |-> style, emoji |-> emoji, text |-> text]

\* what "for item in data" iterates over: the items of a list, the keys of
\* a dict, the characters of a str
IterItems(data) ==
    IF data.type = "list" THEN data.items
    ELSE IF data.type = "obj"
    THEN SelectSeq(<<data.style, data.emoji, data.text>>, LAMBDA f : f # None)
    ELSE IF data.type = "str"
    THEN [k \in 1..Len(data.s) |-> JStr(<<data.s[k]>>)]
    ELSE <<>>

\* the try block of generate_recodes: the variants appended before the block
\* ended, and whether it ended by raising
ParseStructured(content, reply) ==
    LET loaded == json_loads(content, reply)
        data   == ValueOf(loaded)
        notIterable == data.type \in {"num", "null"}
    IN  IF loaded = None THEN [variants |-> <<>>, raised |-> TRUE]
        ELSE IF notIterable THEN [variants |-> <<>>, raised |-> TRUE]
        ELSE The({
            LET \* the keys of a dict and the characters of a str have no .get
                itemRaises == data.type \in {"obj", "str"} /\ items # <<>>
                bad   == {k \in 1..Len(items) : ItemRaises(items[k])}
                first == IF bad = {} THEN Len(items) + 1
                         ELSE CHOOSE k \in bad : \A h \in bad : k <= h
                made  == [k \in 1..(first - 1) |-> ItemVariant(items[k])]
            IN  IF itemRaises THEN [variants |-> <<>>, raised |-> TRUE]
                ELSE [variants |-> SelectSeq(made, LAMBDA v : v.text # <<>>),
                      raised   |-> bad # {}]
            : items \in {IterItems(data)} })

\* the blocks of SplitBlocks from the whitespace positions of content
BlocksOf(content, spaces) ==
    LET RunStart(i) ==
            CHOOSE j \in 1..i :
                /\ j = 1 \/ (j - 1) \notin spaces
                /\ \A k \in j..i : k \in spaces
        RunEnd(i) ==
            CHOOSE j \in i..Len(content) :
                /\ j = Len(content) \/ (j + 1) \notin spaces
                /\ \A k \in i..j : k \in spaces
    IN  The({SelectSeq([k \in 1..Len(runs) |->
                          strip(SubSeq(content, runs[k][1], runs[k][2]))],
                      LAMBDA b : b # <<>>)
             : runs \in {The({Runs(Len(content), seps)
                             : seps \in {{i \in spaces :
                                  Cardinality({k \in RunStart(i)..RunEnd(i) :
                                                  content[k] = "\n"}) >= 2}} })} })

\* [b.strip() for b in re.split(r"\n\s*\n", content) if b.strip()].  A match
\* of \n\s*\n runs from the first to the last line feed of a run of
\* whitespace that holds two or more; the whitespace of the run around it
\* is stripped from the blocks, so the whole run separates them.
SplitBlocks(content) ==
    The({BlocksOf(content, spaces)
         : spaces \in {{i \in 1..Len(content) : IsSpace(content[i])}} })

\* the variant the except block makes of a stripped, non-empty block b.
\* re.match(r"\s*(.+?):\s*(.+)", b, flags=re.S): the lazy first group ends
\* before the first colon that is neither the first nor the last character
\* of b, and the second group is the rest after the whitespace that follows.
BlockVariant(b) ==
    The({
        LET c      == CHOOSE x \in colons : \A y \in colons : x <= y
            text   == IF colons # {} THEN strip(SubSeq(b, c + 1, Len(b))) ELSE b
        IN  The({[style |-> style, emoji |-> EmojiMapGet(style, Sparkles),
                  text |-> text]
                 : style \in {IF colons # {} THEN strip(SubSeq(b, 1, c - 1))
                              ELSE <<"R","e","c","o","d","e">>} })
        : colons \in {{c \in 2..(Len(b) - 1) : b[c] = ":"}} })

\* the except block left out: "except Exception: pass"
ParseFallback_pass(content) == <<>>

\* the except block of generate_recodes
ParseFallback(content) ==
    The({[k \in 1..Len(blocks) |-> BlockVariant(blocks[k])]
         : blocks \in {SplitBlocks(content)} })

\* the length enforcement left out
Enforce_uncut(v, max) == v

\* the enforcement marking the cut with an ellipsis
Enforce_ellipsis(v, max) ==
    IF Len(v.text) > max
    THEN [v EXCEPT !.text = rstrip(Prefix(v.text, max)) \o <<"U+2026">>]
    ELSE v

\* the length enforcement at the end of generate_recodes
Enforce(v, max) ==
    IF Len(v.text) > max
    THEN [v EXCEPT !.text = rstrip(Prefix(v.text, max))]
    ELSE v

\* the try and except blocks on the content with its code fences stripped
CandidatesOf(content, reply) ==
    The({IF parsed.raised THEN parsed.variants \o ParseFallback(content)
         ELSE parsed.variants
         : parsed \in {ParseStructured(content, reply)} })

\* generate_recodes from the reply of the chat completion on: the parsed
\* candidates, before the cut to max(n_variants, 4) and the enforcement
Candidates(reply) ==
    The({CandidatesOf(content, reply)
         : content \in {_strip_code_fences(reply.content)} })

\* the value generate_recodes returns when the client exists and the call
\* returns reply
generate_recodes(original, n_variants, reply) ==
    The({AsSeq([k \in 1..Len(variants) |-> Enforce(variants[k], max)],
               Len(variants))
         : variants \in {Prefix(Candidates(reply), Max2(n_variants, 4))},
           max      \in {hard_max(original)} })

\* ------------------------------------------------------------------------
\* The inputs: what the user pastes and what the chat completion replies
\* ------------------------------------------------------------------------

\* the first n characters of u repeated
Repeat(u, n) == AsSeq([i \in 1..n |-> u[((i - 1) % Len(u)) + 1]], n)

PadStep == 110

MaxPad == 3

\* the prompts the user submits
Prompts ==
    { <<>>,
      <<" "," ","\n"," ">>,
      <<"?","!">>,
      <<"1"," ","2">>,
      <<"W","H","Y">>,
      <<"a","U+24B6","U+24B6">>,
      <<"w","h","y"," ","t","a","g">>,
      <<"w","h","a","t"," ","i","s"," ","i","t","?"," ","v","o","t","e">>,
      <<"H","A","T","E"," ","v","s"," ","f","a","k","e","!","!">>,
      <<"a","\n","b","."," ","c","."," ","d">>,
      <<"T","h","e"," ","g","y","m"," ","i","s"," ","a"," ","s","c","a","m">>,
      <<"e","x","p","a","n","d"," ","i","t">>,
      <<"s","h","o","r","t">>,
      <<"o","k","?"," ","v","o","t","e"," ","t","a","g">>,
      <<"l","o","n","g"," ","s","h","o","r","t">>,
      <<"W","h","y"," ","i","s"," ","i","t"," ","r","e","a","l","?"," ","s","h","a","r","e",","," ","v","o","t","e",","," ","t","a","g"," ","U+1F525","\n","W","H","A","T"," ","H","O","W"," ","N","O","W",":"," ","j","o","i","n"," ","t","h","e"," ","d","e","b","a","t","e",","," ","r","e","p","l","y","!">>,
      Repeat(<<"W","O","W","!","!","!"," ">>, PadStep) }
    \cup { <<"s","h","o","r","t","e","n"," ">> \o Repeat(<<"z">>, PadStep * k) :
              k \in 1..MaxPad }

\* the message the chat completion returns: its content (None becomes "")
\* and, when the content holds a JSON document, the value of the document
JsonReply(before, data, after) ==
    [content |-> before \o JsonText(data) \o after, json |-> Some(data)]

TextReply(text) == [content |-> text, json |-> None]

LongText ==
    <<"o","n","e"," ","t","w","o"," ","t","h","r","e","e"," ","f","o","u","r"," ","f","i","v","e"," ","s","i","x"," ","s","e","v","e","n"," ","e","i","g","h","t"," ","t","o"," ","n","i","n","e"," ","t","e","n"," ","e","l","e","v","e","n">>

Replies ==
    { \* a fenced JSON list of six items, one with an empty text
      JsonReply(<<"H","e","r","e"," ","y","o","u"," ","g","o",":","\n">> \o Fence \o <<"j","s","o","n","\n">>,
                JList(<< JObj(Some(JStr(<<"S","e","r","i","o","u","s"," ","&"," ","B","a","l","a","n","c","e","d">>)),
                              Some(JNum(7)),
                              Some(JStr(<<"w","h","y"," ","t","a","g"," ","v","o","t","e">>))),
                         JObj(Some(JStr(<<"C","o","m","e","d","i","c"," ","S","p","i","n">>)), None,
                              Some(JStr(<<" ","h","a","t","e"," ","l","e","s","s",","," ","s","h","a","r","e"," ","m","o","r","e","!"," ">>))),
                         JObj(Some(JStr(<<"C","u","s","t","o","m">>)), Some(JStr(<<"U+1F525">>)),
                              Some(JStr(<<>>))),
                         JObj(None, None, Some(JStr(LongText))),
                         JObj(Some(JNull), Some(JStr(<<"U+1F525"," ">>)), Some(JNum(5))),
                         JObj(None, None, Some(JStr(<<"s","i","x","t","h">>))) >>),
                <<"\n">> \o Fence),
      \* a JSON list whose second item is not an object
      JsonReply(<<>>,
                JList(<< JObj(None, None, Some(JStr(<<"C","a","l","m"," ","t","a","k","e">>))),
                         JNum(5) >>),
                <<>>),
      \* a JSON list whose item has an emoji that is not a string
      JsonReply(<<>>,
                JList(<< JObj(Some(JStr(<<"C","u","s","t","o","m">>)), Some(JNull),
                              Some(JStr(<<"C","a","l","m"," ","t","a","k","e">>))) >>),
                <<>>),
      \* a JSON object instead of a list, and an empty JSON list
      JsonReply(<<>>, JObj(None, None, Some(JStr(<<"f","i","f","t","h">>))), <<>>),
      JsonReply(<<>>, JList(<<>>), <<>>),
      \* a JSON list after a preamble and without fences: not a JSON document
      JsonReply(<<"n","o","t","e"," ">>,
                JList(<< JObj(None, None, Some(JStr(<<"f","i","f","t","h">>))) >>),
                <<>>),
      \* plain text: two paragraphs, one long paragraph, an empty fence,
      \* nothing, whitespace only
      TextReply(<<"S","e","r","i","o","u","s"," ","&"," ","B","a","l","a","n","c","e","d",":"," ","c","a","l","m"," ","t","a","l","k","\n","\n","h","e","l","l","o"," ","t","h","e","r","e">>),
      TextReply(Repeat(<<"y","z"," ">>, PadStep * MaxPad)),
      TextReply(Fence \o <<"j","s","o","n","\n">> \o Fence),
      TextReply(<<>>),
      TextReply(<<" ","\n"," ">>) }

\* ------------------------------------------------------------------------
\* STATE HELPERS and APP BODY: the page script
\* ------------------------------------------------------------------------

VARIABLES
    orig_prompt,    \* st.session_state.orig_prompt
    orig_scores,    \* st.session_state.orig_scores: None or Some(analyze_text)
    orig_viral,     \* st.session_state.orig_viral: None or Some(virality_rating)
    recodes,        \* st.session_state.recodes: None or Some(variants)
    pack,           \* st.session_state.pack: None or Some(pack)
    generated,      \* st.session_state.generated
    client,         \* the module's client exists (OPENAI_API_KEY is set)
    resp,           \* the message the chat completion returned in this run:
                    \* None, or Some(reply)
    pc,             \* where the script is: "wait" (a run has ended and the
                    \* page waits for the user), "start" (a rerun begins),
                    \* "body" (set_prompt has run, the mode branch has not)
    view            \* what the run has put on the page

session == <<orig_prompt, orig_scores, orig_viral, recodes, pack, generated>>

vars == <<orig_prompt, orig_scores, orig_viral, recodes, pack, generated,
          client, resp, pc, view>>

\* an empty page: no st.error, no styled preview, no alternatives
EmptyView == [error |-> "", preset |-> "", alternatives |-> FALSE]

\* init_state(), and the module's client
Init ==
    /\ orig_prompt = <<>>
    /\ orig_scores = None
    /\ orig_viral = None
    /\ recodes = None
    /\ pack = None
    /\ generated = FALSE
    /\ client \in BOOLEAN
    /\ resp = None
    /\ pc = "wait"
    /\ view = EmptyView

\* the user changes a widget or presses a button: Streamlit reruns the
\* script from the top with an empty page
StartRun ==
    /\ pc = "wait"
    /\ pc' = "start"
    /\ view' = EmptyView
    /\ resp' = None
    /\ UNCHANGED <<session, client>>

\* set_prompt that computes the analysis of a prompt that is not blank and
\* leaves the old analysis in place for a blank one
set_prompt_stale(p) ==
    /\ pc = "start"
    /\ IF p # orig_prompt
       THEN /\ orig_prompt' = p
            /\ orig_scores' = IF ~IsBlank(p) THEN Some(analyze_text(p)) ELSE orig_scores
            /\ orig_viral' = IF ~IsBlank(p) THEN Some(virality_rating(p, None, None))
                             ELSE orig_viral
            /\ recodes' = None
            /\ pack' = None
            /\ generated' = FALSE
       ELSE UNCHANGED session
    /\ pc' = "body"
    /\ UNCHANGED <<client, resp, view>>

\* set_prompt without the reset of recodes, pack and generated
set_prompt_keeps_recodes(p) ==
    /\ pc = "start"
    /\ IF p # orig_prompt
       THEN /\ orig_prompt' = p
            /\ orig_scores' = IF ~IsBlank(p) THEN Some(analyze_text(p)) ELSE None
            /\ orig_viral' = IF ~IsBlank(p) THEN Some(virality_rating(p, None, None)) ELSE None
            /\ UNCHANGED <<recodes, pack, generated>>
       ELSE UNCHANGED session
    /\ pc' = "body"
    /\ UNCHANGED <<client, resp, view>>

\* set_prompt(user_prompt), user_prompt being the value of the text area
set_prompt(p) ==
    /\ pc = "start"
    /\ IF p # orig_prompt
       THEN /\ orig_prompt' = p
            /\ orig_scores' = IF ~IsBlank(p) THEN Some(analyze_text(p)) ELSE None
            /\ orig_viral' = IF ~IsBlank(p) THEN Some(virality_rating(p, None, None)) ELSE None
            /\ recodes' = None
            /\ pack' = None
            /\ generated' = FALSE
       ELSE UNCHANGED session
    /\ pc' = "body"
    /\ UNCHANGED <<client, resp, view>>

\* the alternatives loop without the max(0, ...)
Alternative_signed(rec, scores) ==
    LET now == analyze_text(rec.text)
    IN  [now      |-> now,
         tox_drop |-> scores.toxicity - now.toxicity,
         dis_drop |-> scores.disruption - now.disruption,
         pos_gain |-> now.positivity - scores.positivity,
         viral    |-> virality_rating(rec.text, Some(now.toxicity), Some(now.disruption))]

\* the values the alternatives loop shows for one variant
Alternative(rec, scores) ==
    LET now == analyze_text(rec.text)
    IN  [now      |-> now,
         tox_drop |-> Max2(0, scores.toxicity - now.toxicity),
         dis_drop |-> Max2(0, scores.disruption - now.disruption),
         pos_gain |-> Max2(0, now.positivity - scores.positivity),
         viral    |-> virality_rating(rec.text, Some(now.toxicity), Some(now.disruption))]

\* "if st.session_state.generated and st.session_state.recodes:" with the
\* session fields g and r
ShowsAlternatives(g, r) == g /\ r # None /\ ValueOf(r) # <<>>

\* "if mode.startswith("Style")": the styled preview of the original
StyleMyOriginal(style_choice) ==
    /\ pc = "body"
    /\ view' = IF ~IsBlank(orig_prompt)
               THEN [view EXCEPT !.preset = style_choice]
               ELSE view
    /\ pc' = "wait"
    /\ UNCHANGED <<session, client, resp>>

\* recode mode, the button not pressed: the alternatives of the session
RecodeView ==
    /\ pc = "body"
    /\ view' = [view EXCEPT !.alternatives = ShowsAlternatives(generated, recodes)]
    /\ pc' = "wait"
    /\ UNCHANGED <<session, client, resp>>

\* the button pressed with a blank prompt: st.error, and the script goes on
RecodeBlank ==
    /\ pc = "body"
    /\ IsBlank(orig_prompt)
    /\ view' = [view EXCEPT !.error = "Please paste a prompt or topic.",
                            !.alternatives = ShowsAlternatives(generated, recodes)]
    /\ pc' = "wait"
    /\ UNCHANGED <<session, client, resp>>

\* the button pressed without a client: generate_recodes calls st.error and
\* st.stop(), which ends the run
RecodeMissingKey ==
    /\ pc = "body"
    /\ ~IsBlank(orig_prompt)
    /\ ~client
    /\ view' = [view EXCEPT !.error = "Missing OPENAI_API_KEY"]
    /\ pc' = "wait"
    /\ UNCHANGED <<session, client, resp>>

\* the handler setting generated before it calls generate_recodes
RecodeCallFails_generated_first ==
    /\ pc = "body"
    /\ ~IsBlank(orig_prompt)
    /\ client
    /\ view' = [view EXCEPT !.error = "Authentication failed"]
    /\ generated' = TRUE
    /\ pc' = "wait"
    /\ UNCHANGED <<orig_prompt, orig_scores, orig_viral, recodes, pack, client, resp>>

\* the button pressed, and client.chat.completions.create raises
RecodeCallFails ==
    /\ pc = "body"
    /\ ~IsBlank(orig_prompt)
    /\ client
    /\ view' = [view EXCEPT !.error = "Authentication failed"]
    /\ pc' = "wait"
    /\ UNCHANGED <<session, client, resp>>

\* the button pressed, and the chat completion returns reply
RecodeOk(reply, include_comedy) ==
    /\ pc = "body"
    /\ ~IsBlank(orig_prompt)
    /\ client
    /\ \E recs \in {generate_recodes(orig_prompt,
                                       IF include_comedy THEN 4 ELSE 3, reply)} :
          /\ recodes' = Some(recs)
          /\ view' = [view EXCEPT !.alternatives = ShowsAlternatives(TRUE, Some(recs))]
    /\ pack' = Some([original |-> [text |-> orig_prompt, scores |-> orig_scores,
                                   virality |-> orig_viral],
                     alternatives |-> <<>>])
    /\ generated' = TRUE
    /\ pc' = "wait"
    /\ resp' = Some(reply)
    /\ UNCHANGED <<orig_prompt, orig_scores, orig_viral, client>>

Next ==
    \/ StartRun
    \/ \E p \in Prompts : set_prompt(p)
    \/ \E style_choice \in DOMAIN STYLE_PRESETS : StyleMyOriginal(style_choice)
    \/ RecodeView
    \/ RecodeBlank
    \/ RecodeMissingKey
    \/ RecodeCallFails
    \/ \E reply \in Replies, include_comedy \in BOOLEAN : RecodeOk(reply, include_comedy)

Spec == Init /\ [][Next]_vars

\* the alternatives the page shows: one entry for each variant of the session
Alternatives ==
    IF view.alternatives
    THEN LET recs == ValueOf(recodes)
         IN  AsSeq([k \in 1..Len(recs) |-> Alternative(recs[k], ValueOf(orig_scores))],
                   Len(recs))
    ELSE <<>>

\* the styled preview the page shows, and its rating (viral_styled)
Styled ==
    IF view.preset # ""
    THEN Some(format_prompt_for_style(orig_prompt, view.preset))
    ELSE None

ViralStyled ==
    IF Styled # None THEN Some(virality_rating(ValueOf(Styled), None, None))
    ELSE None

\* ------------------------------------------------------------------------
\* Properties
\* ------------------------------------------------------------------------

\* the variants of the session, <<>> when there are none
Recs == IF recodes = None THEN <<>> ELSE ValueOf(recodes)

\* the prompt holds a whole-word shorten cue, an expand cue
HasShortenCue(p) == SearchWord(lower(p), SHORTEN_CUES)

HasExpandCue(p) == SearchWord(lower(p), EXPAND_CUES)

\* toxicity, disruption and positivity are integers of 0..100
ScoresInRange(s) ==
    /\ s.toxicity \in 0..100
    /\ s.disruption \in 0..100
    /\ s.positivity \in 0..100

\* C1: analyze_text returns toxicity, disruption and positivity in 0..100 for
\* every text: for the text of the text area, be it empty, blank, without
\* letters, all punctuation or all capitals, for the analysis the session
\* keeps of it, and for the text of every variant the page shows.
C1_ScoresInRange ==
    /\ ScoresInRange(analyze_text(orig_prompt))
    /\ orig_scores # None => ScoresInRange(ValueOf(orig_scores))
    /\ \E alts \in {Alternatives} :
          \A k \in DOMAIN alts : ScoresInRange(alts[k].now)

\* the session holds the analysis of a prompt whose toxicity and disruption
\* sums pass 100 and are clamped
C1_Witness ==
    /\ orig_scores # None
    /\ ValueOf(orig_scores).toxicity = 100
    /\ ValueOf(orig_scores).disruption = 100
    /\ ValueOf(orig_scores).positivity = 0
    /\ analyze_text_unclamped(orig_prompt).toxicity > 100

\* floor(target_len x m) + 40, m being 1.5 with an expand cue and 1.1 without
Ceiling(p) ==
    IF HasExpandCue(p) THEN (target_len(p) * 15) \div 10 + 40
    ELSE (target_len(p) * 11) \div 10 + 40

\* C2: the text of every variant generate_recodes returned for the prompt of
\* the session is at most Ceiling(prompt) characters long.
C2_WithinCeiling ==
    \E max \in {Ceiling(orig_prompt)} :
        \A k \in DOMAIN Recs : Len(Recs[k].text) <= max

\* a variant of the session is the cut of a candidate that was longer than
\* the ceiling
C2_Witness ==
    /\ resp # None
    /\ recodes # None
    /\ \E cands \in {Candidates(ValueOf(resp))} :
          \E k \in DOMAIN Recs :
              /\ Len(cands[k].text) > Ceiling(orig_prompt)
              /\ Len(Recs[k].text) <= Ceiling(orig_prompt)
              /\ Recs[k].text # <<>>

C4_ShortenTarget ==
    /\ HasShortenCue(orig_prompt) =>
          /\ target_len(orig_prompt) = Max2(200, (Len(orig_prompt) * 6) \div 10)
          /\ Len(orig_prompt) > 200 => target_len(orig_prompt) < Len(orig_prompt)
    /\ ~HasShortenCue(orig_prompt) /\ ~HasExpandCue(orig_prompt) =>
          target_len(orig_prompt) = Len(orig_prompt)

\* variants were generated for a prompt with a shorten cue that is long
\* enough for 0.6 x len to pass the floor of 200
C4_Witness ==
    /\ generated
    /\ HasShortenCue(orig_prompt)
    /\ (Len(orig_prompt) * 6) \div 10 > 200
    /\ target_len(orig_prompt) < Len(orig_prompt)

\* the content generate_recodes parses: the reply without its code fences
Content == _strip_code_fences(ValueOf(resp).content)

\* the try block of generate_recodes ended by raising
StructuredFails ==
    resp # None /\ ParseStructured(Content, ValueOf(resp)).raised

\* C5, as amended: when the reply is not valid structured data the failure
\* is not propagated (the handler ends without an error and stores the
\* variants), and the fallback yields at least one variant provided the
\* reply, its code fences stripped, is not empty.
C5_FallbackUnlessEmpty ==
    resp # None =>
        /\ generated /\ recodes # None /\ view.error = ""
        /\ StructuredFails /\ Content # <<>> => Len(Recs) >= 1

\* C5 as stated: when the reply is not valid structured data the fallback
\* yields at least one variant, for an empty or blank reply too.
C5_FallbackAlways ==
    StructuredFails => recodes # None /\ Len(Recs) >= 1

\* the reply was plain text, and the variants are the ones of the fallback
C5_Witness ==
    /\ StructuredFails
    /\ ValueOf(resp).json = None
    /\ Content # <<>>
    /\ Len(Recs) >= 2
    /\ Recs = ParseFallback(Content)

\* orig_scores and orig_viral describe orig_prompt
Coherent ==
    /\ orig_scores = IF IsBlank(orig_prompt) THEN None
                     ELSE Some(analyze_text(orig_prompt))
    /\ orig_viral = IF IsBlank(orig_prompt) THEN None
                    ELSE Some(virality_rating(orig_prompt, None, None))

\* a press of the button ends with the error of a missing key or of a failed
\* call on the page
FailedRecode ==
    /\ pc = "body"
    /\ pc' = "wait"
    /\ view'.error \in {"Missing OPENAI_API_KEY", "Authentication failed"}

\* C6: a recode request that fails (no client, or the call raises) ends the
\* run with the error and nothing rendered after it, and leaves the six
\* session fields as they were, with orig_scores and orig_viral still the
\* analysis of orig_prompt.
C6_FailureKeepsSession ==
    [][FailedRecode =>
          /\ session' = session
          /\ ~view'.alternatives
          /\ Coherent']_vars

\* a retry that failed after a generation that succeeded: the variants of
\* the session are still there
C6_Witness ==
    /\ pc = "wait"
    /\ view.error = "Authentication failed"
    /\ generated
    /\ Len(Recs) >= 1
    /\ Coherent

\* C7: the deltas the alternatives loop reports are max(0, difference): never
\* negative, and 0 for a variant that scores worse than the original.
C7_DeltasNonNegative ==
    \E alts \in {Alternatives} :
        \A k \in DOMAIN alts :
            LET a == alts[k]
                o == ValueOf(orig_scores)
            IN  /\ a.tox_drop >= 0 /\ a.dis_drop >= 0 /\ a.pos_gain >= 0
                /\ a.tox_drop = IF o.toxicity > a.now.toxicity
                                THEN o.toxicity - a.now.toxicity ELSE 0
                /\ a.dis_drop = IF o.disruption > a.now.disruption
                                THEN o.disruption - a.now.disruption ELSE 0
                /\ a.pos_gain = IF a.now.positivity > o.positivity
                                THEN a.now.positivity - o.positivity ELSE 0

\* the page shows a variant that is more toxic and less positive than the
\* original, with deltas of 0
C7_Witness ==
    \E alts \in {Alternatives} :
        \E k \in DOMAIN alts :
            /\ alts[k].now.toxicity > ValueOf(orig_scores).toxicity
            /\ alts[k].now.positivity < ValueOf(orig_scores).positivity
            /\ alts[k].tox_drop = 0
            /\ alts[k].pos_gain = 0

\* C8 as stated: the preview of a bullet-style preset (Debate Ticket) has at
\* most 3 lines: a headline and at most two lines that start with the bullet.
C8_AtMostThreeLines ==
    Styled # None /\ STYLE_PRESETS[view.preset].bullets =>
        CountChar(ValueOf(Styled), "\n") + 1 <= 3

\* the features of a rating and its score, for the ratings of every prompt
\* the user submits
PromptRatings ==
    { <<ViralityFeatures(p, None, None), virality_rating(p, None, None).score>> :
        p \in {q \in Prompts : ~IsBlank(q)} }

\* the same, for the ratings a page with alternatives shows: of the original
\* and of the variants
PageRatings ==
    {<<ViralityFeatures(orig_prompt, None, None), ValueOf(orig_viral).score>>}
    \cup
    { <<ViralityFeatures(a.rec.text, Some(a.alt.now.toxicity),
                         Some(a.alt.now.disruption)),
        a.alt.viral.score>> :
        a \in {[rec |-> Recs[k], alt |-> Alternatives[k]] : k \in DOMAIN Alternatives} }

\* the features of the claim other than the CTA hits are equal; length and
\* words per line count by their band
SameOtherFeatures(f, g) ==
    /\ f.has_q = g.has_q
    /\ f.hook_hits = g.hook_hits
    /\ f.len_bonus = g.len_bonus
    /\ f.lines = g.lines
    /\ f.clarity = g.clarity
    /\ f.emoji_hits = g.emoji_hits
    /\ f.caps_words = g.caps_words
    /\ f.tox = g.tox
    /\ f.dis = g.dis

\* C9: of two rated texts whose other features are equal, the one with more
\* CTA hits never has the lower score; the texts are the ones a page with
\* alternatives rates (the original, the variants), compared with one
\* another and with the prompts the user submits.
C9_MonotoneInCta ==
    view.alternatives =>
        \E page \in {PageRatings} :
            \A x \in page, y \in page \cup PromptRatings :
                /\ SameOtherFeatures(x[1], y[1]) /\ x[1].cta_hits <= y[1].cta_hits
                      => x[2] <= y[2]
                /\ SameOtherFeatures(x[1], y[1]) /\ x[1].cta_hits >= y[1].cta_hits
                      => x[2] >= y[2]

\* the page rates a variant that differs from the original in its CTA hits
\* only and has the higher score
C9_Witness ==
    /\ view.alternatives
    /\ \E page \in {PageRatings} :
          \E x \in page, y \in page :
              /\ x[2] = ValueOf(orig_viral).score
              /\ SameOtherFeatures(x[1], y[1])
              /\ x[1].cta_hits < y[1].cta_hits
              /\ x[2] < y[2]

\* the score is in 0..100 and the label is the one of its tier
ScoreAndLabel(v) ==
    /\ v.score \in 0..100
    /\ v.label = "U+1F525 High" <=> v.score >= 80
    /\ v.label = "U+2728 Medium" <=> (60 <= v.score /\ v.score < 80)
    /\ v.label = "U+1F9CA Low" <=> v.score < 60

\* C10: every rating virality_rating returns (of the original, without tox
\* and dis; of a variant, with them; of the styled preview) has a score in
\* 0..100 and the label High from 80 on, Medium from 60 to 79, Low below.
C10_ScoreAndLabel ==
    /\ orig_viral # None => ScoreAndLabel(ValueOf(orig_viral))
    /\ \E alts \in {Alternatives} :
          \A k \in DOMAIN alts : ScoreAndLabel(alts[k].viral)
    /\ \E styled \in {ViralStyled} :
          styled # None => ScoreAndLabel(ValueOf(styled))

\* the page shows the variants of an original rated High, one of them rated
\* Medium and one Low
C10_Witness ==
    /\ orig_viral # None
    /\ ValueOf(orig_viral).label = "U+1F525 High"
    /\ \E alts \in {Alternatives} :
          /\ \E k \in DOMAIN alts : alts[k].viral.label = "U+2728 Medium"
          /\ \E k \in DOMAIN alts : alts[k].viral.label = "U+1F9CA Low"

\* max_lines of the call of _smart_lines that format_prompt_for_style makes
\* for the preset of the page
MaxLines == IF STYLE_PRESETS[view.preset].bullets THEN 3 ELSE 5

\* C11 as stated: when the split of the prompt on punctuation and double
\* spaces gives fewer than 3 segments and the prompt has a word, the lines
\* _smart_lines returns are at most 3 chunks that hold every word of the
\* prompt, in order.
C11_FallbackKeepsWords ==
    view.preset # "" =>
        \E parts \in {SplitParts(strip(orig_prompt))}, words \in {split(orig_prompt)} :
            Len(parts) < 3 /\ words # <<>> =>
                \E lines \in {_smart_lines(orig_prompt, MaxLines)} :
                    /\ Len(lines) <= 3
                    /\ join(<<" ">>, lines) = join(<<" ">>, words)

\* set_prompt has run with a prompt equal to the one of the session
SamePromptRun ==
    pc = "start" /\ pc' = "body" /\ orig_prompt' = orig_prompt

\* C12: in every state the page runs reach, orig_scores and orig_viral are
\* None when orig_prompt is blank and the analysis and the rating of
\* orig_prompt otherwise; and a run whose prompt equals orig_prompt leaves
\* the six session fields as they are when set_prompt returns.
C12_CacheCoherent ==
    /\ []Coherent
    /\ [][SamePromptRun => session' = session]_vars

\* after a generation, a later run with the same prompt has passed
\* set_prompt: the analysis is the one of the prompt and the variants stay
C12_Witness ==
    /\ pc = "body"
    /\ generated
    /\ Len(Recs) >= 1
    /\ orig_scores = Some(analyze_text(orig_prompt))
    /\ orig_viral = Some(virality_rating(orig_prompt, None, None))

\* generated holds only with variants and a pack made for the prompt of the
\* session, which is not blank and has its analysis
GeneratedForPrompt ==
    generated =>
        /\ recodes # None
        /\ pack # None
        /\ ValueOf(pack).original.text = orig_prompt
        /\ ValueOf(pack).original.scores = orig_scores
        /\ ~IsBlank(orig_prompt)
        /\ orig_scores # None
        /\ resp # None =>
              recodes = Some(generate_recodes(orig_prompt, 4, ValueOf(resp)))

\* set_prompt has run with a prompt that differs from the one of the session
OtherPromptRun ==
    pc = "start" /\ pc' = "body" /\ orig_prompt' # orig_prompt

\* C13: generated = True implies that recodes and pack are not None, that
\* they were made from the current orig_prompt, and that orig_prompt is not
\* blank and orig_scores not None; recodes only ever becomes None or the
\* variants generate_recodes returns for the current prompt; and a run with
\* another prompt resets recodes, pack and generated while the page is still
\* empty.
C13_GeneratedIsCurrent ==
    /\ []GeneratedForPrompt
    /\ [][recodes' # recodes =>
             \/ recodes' = None
             \/ /\ resp' # None
                /\ recodes' = Some(generate_recodes(orig_prompt', 4, ValueOf(resp')))]_vars
    /\ [][OtherPromptRun =>
             /\ recodes' = None
             /\ pack' = None
             /\ ~generated'
             /\ view' = EmptyView]_vars

\* a later run shows the alternatives of the session, which were generated
\* for the prompt the session still holds
C13_Witness ==
    /\ pc = "wait"
    /\ resp = None
    /\ generated
    /\ view.alternatives
    /\ Len(Recs) >= 1
    /\ ValueOf(pack).original.text = orig_prompt

\* C14: the enforcement only shortens.  Each variant generate_recodes returns
\* has a text that is a prefix of the text of the candidate it was made of
\* and is not empty, is the candidate itself when the text of the candidate
\* is not longer than the hard ceiling, and has the style and the emoji of
\* the candidate.
C14_EnforceOnlyShortens ==
    resp # None /\ recodes # None =>
        \E cands \in {Prefix(Candidates(ValueOf(resp)), 4)},
           max \in {hard_max(orig_prompt)}, recs \in {Recs} :
            /\ Len(recs) = Len(cands)
            /\ \A k \in DOMAIN recs :
                  /\ Len(recs[k].text) <= Len(cands[k].text)
                  /\ recs[k].text = Prefix(cands[k].text, Len(recs[k].text))
                  /\ recs[k].text # <<>>
                  /\ Len(cands[k].text) <= max => recs[k] = cands[k]
                  /\ recs[k].style = cands[k].style
                  /\ recs[k].emoji = cands[k].emoji

\* of the variants returned, one is its candidate and another is a shorter
\* prefix of its candidate
C14_Witness ==
    /\ resp # None
    /\ recodes # None
    /\ \E cands \in {Prefix(Candidates(ValueOf(resp)), 4)}, recs \in {Recs} :
          /\ \E k \in DOMAIN recs : recs[k] = cands[k]
          /\ \E k \in DOMAIN recs :
                /\ Len(recs[k].text) < Len(cands[k].text)
                /\ Len(cands[k].text) > hard_max(orig_prompt)
                /\ recs[k].style = cands[k].style
====
